---- MODULE Spec2Model ----
\* Command-buffer pool and command recording of the Vulkan backend
\* (wgpu-hal/src/vulkan/command.rs).
EXTENDS Integers, Sequences, FiniteSets, TLC

VARIABLES
    free,       \* CommandEncoder.free: Vec<vk::CommandBuffer>
    discarded,  \* CommandEncoder.discarded: Vec<vk::CommandBuffer>
    active,     \* CommandEncoder.active: vk::CommandBuffer (NULL = null handle)
    allocated,  \* number of command buffers the device has allocated so far
    external,   \* handles returned by end_encoding and held by the caller
    phase,      \* the caller's position: "idle", "recording" (inside a
                \* begin/end bracket), "failed" (end_encoding returned an
                \* error: the caller must discard), "panicked"
    faultsLeft, \* native failures the device may still produce
    workload,   \* the caller's reclamation policy: "recycle" or "hoard"
    op,         \* the last call and what it returned
    native,     \* the native calls issued by the last call, in order
    streams,    \* the commands the device recorded, per command buffer that
                \* holds any
    script      \* what the caller records: "single" (one call, any input) or
                \* "sequence" (several calls, short inputs)

vars ==
    <<free, discarded, active, allocated, external, phase, faultsLeft, workload,
      op, native, streams, script>>

pool == <<free, discarded, active>>

\* ---------------------------------------------------------------- constants
ALLOCATION_GRANULARITY == 16

\* vk::CommandBuffer::null()
NULL == 0

\* ------------------------------------------------------------------- bounds
\* allocation batches the device grants before the model stops allocating
MaxBatches == 2
\* command buffers a recycling caller holds (submitted) at once
MaxExternal == 1
\* abandoned recordings between two reset_all calls
MaxDiscarded == 1

\* native calls the device lets fail
MaxFaults == 1
\* barriers or regions handed to one recording call
MaxBatch == 2
\* recording calls a caller makes when it records a sequence
MaxCommands == 2

MaxAllocated == MaxBatches * ALLOCATION_GRANULARITY

\* ------------------------------------------------------------------ helpers
Range(s) == {s[i] : i \in 1..Len(s)}

Count(s, h) == Cardinality({i \in 1..Len(s) : s[i] = h})

\* the handles a successful allocate_command_buffers returns after n earlier ones
NewHandles(n) == [i \in 1..ALLOCATION_GRANULARITY |-> n + i]

\* sequences without repetition over a finite set (what a caller can hand back)
Arrangements(S) ==
    UNION {{s \in [1..n -> S] : \A i, j \in 1..n : i # j => s[i] # s[j]} :
           n \in 0..Cardinality(S)}

Call(name, arg, ok) == [call |-> name, arg |-> arg, ok |-> ok]

Returned(name, result, ret) ==
    [name |-> name, result |-> result, ret |-> ret, args |-> <<>>, resources |-> <<>>]

\* command buffers freshly allocated or reset hold no commands
NoCommands == [h \in {} |-> <<>>]

\* the commands command buffer h holds
StreamOf(s, h) == IF h \in DOMAIN s THEN s[h] ELSE <<>>

\* --------------------------------------------------------------------- Init
Init ==
    /\ free = <<>>
    /\ discarded = <<>>
    /\ active = NULL
    /\ allocated = 0
    /\ external = {}
    /\ phase = "idle"
    /\ faultsLeft = MaxFaults
    /\ workload \in {"recycle", "hoard"}
    /\ op = Returned("new", "Unit", NULL)
    /\ native = <<>>
    /\ streams = NoCommands
    /\ script = "single"

\* ------------------------------------------------------------ pool operations
\* outcomes the device may give the next native call
Outcomes == IF faultsLeft > 0 THEN BOOLEAN ELSE {TRUE}

\* A recycling caller keeps few buffers in flight and hands them back with
\* reset_all; a hoarding caller submits without ever resetting, until the
\* device grants no more batches.
ExternalCap == IF workload = "hoard" THEN MaxAllocated ELSE MaxExternal

\* allocates one call too early, while a buffer is still free
NeedAllocEarly(f) == Len(f) <= 1

\* if self.free.is_empty()
NeedAlloc(f) == f = <<>>

\* self.free.extend(cmd_buf_vec)
ExtendFree(f, cmd_buf_vec) == f \o cmd_buf_vec

\* self.free.pop().unwrap()
PopFree(f) == [raw |-> f[Len(f)], rest |-> SubSeq(f, 1, Len(f) - 1)]

\* never makes the begun buffer the active one
ActiveAfterBeginStale(old, raw, beginOk) == old

\* self.active after begin_command_buffer(raw) returned
ActiveAfterBegin(old, raw, beginOk) == IF beginOk THEN raw ELSE old

begin_encoding ==
    /\ phase = "idle"
    /\ ~NeedAlloc(free) \/ allocated + ALLOCATION_GRANULARITY <= MaxAllocated
    /\ \E allocOk \in Outcomes, beginOk \in Outcomes :
        LET needAlloc == NeedAlloc(free)
            allocCall == Call("allocate_command_buffers", ALLOCATION_GRANULARITY, allocOk)
        IN  IF needAlloc /\ ~allocOk
            THEN /\ native' = <<allocCall>>
                 /\ faultsLeft' = faultsLeft - 1
                 /\ op' = Returned("begin_encoding", "Err", NULL)
                 /\ UNCHANGED <<free, discarded, active, allocated, external, phase,
                                workload, streams, script>>
            ELSE LET free1 == IF needAlloc
                              THEN ExtendFree(free, NewHandles(allocated))
                              ELSE free
                     popped == PopFree(free1)
                     raw == popped.raw
                     beginCall == Call("begin_command_buffer", raw, beginOk)
                 IN  /\ free' = popped.rest
                     /\ allocated' = IF needAlloc
                                     THEN allocated + ALLOCATION_GRANULARITY
                                     ELSE allocated
                     /\ native' = (IF needAlloc THEN <<allocCall>> ELSE <<>>) \o <<beginCall>>
                     /\ active' = ActiveAfterBegin(active, raw, beginOk)
                     /\ IF beginOk
                        THEN /\ phase' = "recording"
                             /\ op' = Returned("begin_encoding", "Ok", NULL)
                             /\ UNCHANGED faultsLeft
                        ELSE /\ UNCHANGED phase
                             /\ faultsLeft' = faultsLeft - 1
                             /\ op' = Returned("begin_encoding", "Err", NULL)
                     /\ UNCHANGED <<discarded, external, workload, streams, script>>

\* clears active only once end_command_buffer has succeeded
ActiveAfterEndLate(raw, endOk) == IF endOk THEN NULL ELSE raw

\* self.active after end_encoding: cleared before the native call is made
ActiveAfterEnd(raw, endOk) == NULL

\* reports success whatever end_command_buffer returned
EndResultSwallow(raw, endOk) == Returned("end_encoding", "Ok", raw)

\* wraps self.active after it was cleared instead of the saved handle
EndResultAfterClear(raw, endOk) ==
    IF endOk THEN Returned("end_encoding", "Ok", NULL)
             ELSE Returned("end_encoding", "Err", NULL)

\* what end_encoding returns
EndResult(raw, endOk) ==
    IF endOk THEN Returned("end_encoding", "Ok", raw)
             ELSE Returned("end_encoding", "Err", NULL)

end_encoding ==
    /\ phase = "recording"
    /\ Cardinality(external) < ExternalCap
    /\ \E endOk \in Outcomes :
        LET raw == active
        IN  /\ active' = ActiveAfterEnd(raw, endOk)
            /\ native' = <<Call("end_command_buffer", raw, endOk)>>
            /\ op' = EndResult(raw, endOk)
            /\ IF endOk
               THEN /\ external' = external \cup {raw}
                    /\ phase' = "idle"
                    /\ UNCHANGED faultsLeft
               ELSE /\ phase' = "failed"
                    /\ faultsLeft' = faultsLeft - 1
                    /\ UNCHANGED external
            /\ UNCHANGED <<free, discarded, allocated, workload, streams, script>>

\* puts the abandoned buffer nowhere
PushDiscardedDrop(d, a) == d

\* self.discarded.push(self.active)
PushDiscarded(d, a) == Append(d, a)

discard_encoding ==
    /\ phase = "failed" \/ (phase = "recording" /\ workload = "recycle")
    /\ Len(discarded) < MaxDiscarded
    /\ discarded' = PushDiscarded(discarded, active)
    /\ active' = NULL
    /\ phase' = "idle"
    /\ op' = Returned("discard_encoding", "Unit", NULL)
    /\ native' = <<>>
    /\ UNCHANGED <<free, allocated, external, faultsLeft, workload, streams, script>>

\* forgets to drain the discarded list into free
ResetFreeNoDrain(f, cmd_bufs, d) == ExtendFree(f, cmd_bufs)

\* self.free after both extend calls of reset_all
ResetFree(f, cmd_bufs, d) == ExtendFree(ExtendFree(f, cmd_bufs), d)

\* what reset_all returns: the result of reset_command_pool is dropped
ResetResult(resetOk) == Returned("reset_all", "Unit", NULL)

reset_all ==
    /\ workload = "recycle"
    /\ \E cmd_bufs \in Arrangements(external), resetOk \in Outcomes :
        /\ free' = ResetFree(free, cmd_bufs, discarded)
        /\ discarded' = <<>>
        /\ native' = <<Call("reset_command_pool", NULL, resetOk)>>
        /\ faultsLeft' = IF resetOk THEN faultsLeft ELSE faultsLeft - 1
        /\ op' = [ResetResult(resetOk) EXCEPT !.args = cmd_bufs]
        /\ external' = external \ Range(cmd_bufs)
        /\ streams' = IF resetOk THEN NoCommands ELSE streams
        /\ UNCHANGED <<active, allocated, phase, workload, script>>

\* ------------------------------------------------ conv: usage translation
ShaderStages == {"VERTEX_SHADER", "FRAGMENT_SHADER", "COMPUTE_SHADER"}

BufferUseBarrier(flag) ==
    CASE flag = "COPY_SRC" -> [stage |-> {"TRANSFER"}, access |-> {"TRANSFER_READ"}]
      [] flag = "COPY_DST" -> [stage |-> {"TRANSFER"}, access |-> {"TRANSFER_WRITE"}]
      [] flag = "STORAGE_LOAD" -> [stage |-> ShaderStages, access |-> {"SHADER_READ"}]

\* conv::map_buffer_usage_to_barrier: (stage mask, access mask) of a BufferUse
map_buffer_usage_to_barrier(usage) ==
    [stage |-> UNION {BufferUseBarrier(f).stage : f \in usage},
     access |-> UNION {BufferUseBarrier(f).access : f \in usage}]

TextureUseBarrier(flag) ==
    CASE flag = "COPY_SRC" -> [stage |-> {"TRANSFER"}, access |-> {"TRANSFER_READ"}]
      [] flag = "COPY_DST" -> [stage |-> {"TRANSFER"}, access |-> {"TRANSFER_WRITE"}]
      [] flag = "SAMPLED" -> [stage |-> ShaderStages, access |-> {"SHADER_READ"}]

\* conv::map_texture_usage_to_barrier
map_texture_usage_to_barrier(usage) ==
    [stage |-> UNION {TextureUseBarrier(f).stage : f \in usage},
     access |-> UNION {TextureUseBarrier(f).access : f \in usage}]

\* conv::derive_image_layout
derive_image_layout(usage) ==
    CASE usage = {"COPY_SRC"} -> "TRANSFER_SRC_OPTIMAL"
      [] usage = {"COPY_DST"} -> "TRANSFER_DST_OPTIMAL"
      [] usage = {"SAMPLED"} -> "SHADER_READ_ONLY_OPTIMAL"
      [] usage = {} -> "UNDEFINED"
      [] OTHER -> "GENERAL"

\* conv::map_subresource_range: an omitted range is all mips, all layers, all
\* declared aspects
map_subresource_range(range, aspects) ==
    [aspect_mask |-> IF range.aspect = "All" THEN aspects ELSE aspects \cap {range.aspect},
     base_mip_level |-> range.base_mip_level,
     level_count |-> range.mip_level_count,
     base_array_layer |-> range.base_array_layer,
     layer_count |-> range.array_layer_count]

\* conv::map_extent: the third size component is depth for a 3D texture and
\* the layer count otherwise
map_extent(size, dim) ==
    IF dim = "D3"
    THEN [layer_count |-> 1, extent |-> size]
    ELSE [layer_count |-> size[3], extent |-> <<size[1], size[2], 1>>]

\* conv::map_subresource_layers
map_subresource_layers(base, dim, aspects, layer_count) ==
    [subresource |->
        [aspect_mask |-> IF base.aspect = "All" THEN aspects ELSE aspects \cap {base.aspect},
         mip_level |-> base.mip_level,
         base_array_layer |-> IF dim = "D3" THEN 0 ELSE base.origin[3],
         layer_count |-> layer_count],
     offset |-> IF dim = "D3" THEN base.origin
                ELSE <<base.origin[1], base.origin[2], 0>>]

\* ------------------------------------------------------- recording inputs
\* declares the general layout for copy destinations
DstImageLayoutGeneral == "GENERAL"

DST_IMAGE_LAYOUT == "TRANSFER_DST_OPTIMAL"

\* Option<NonZeroU32>::None
None == 0

BufA == [raw |-> "buf_a"]

BufB == [raw |-> "buf_b"]

\* a four-byte-per-texel format and a block-compressed one (8-byte 4x4 blocks)
TexRgba8 ==
    [raw |-> "tex_rgba8", dim |-> "D2", aspects |-> {"COLOR"},
     format_info |-> [block_size |-> 4, block_dimensions |-> <<1, 1>>]]

TexBc1 ==
    [raw |-> "tex_bc1", dim |-> "D2", aspects |-> {"COLOR"},
     format_info |-> [block_size |-> 8, block_dimensions |-> <<4, 4>>]]

Textures == {TexRgba8, TexBc1}

Usage(start, end) == [start |-> start, end |-> end]

FullRange ==
    [aspect |-> "All", base_mip_level |-> 0, mip_level_count |-> "REMAINING",
     base_array_layer |-> 0, array_layer_count |-> "REMAINING"]

BufferBarriers ==
    {[buffer |-> BufA, usage |-> Usage({"COPY_DST"}, {"STORAGE_LOAD"})],
     [buffer |-> BufB, usage |-> Usage({"COPY_SRC"}, {"COPY_DST"})],
     [buffer |-> BufA, usage |-> Usage({}, {"COPY_DST"})]}

TextureBarriers ==
    {[texture |-> TexRgba8, range |-> FullRange, usage |-> Usage({}, {"COPY_DST"})],
     [texture |-> TexRgba8, range |-> FullRange, usage |-> Usage({"COPY_DST"}, {"SAMPLED"})],
     [texture |-> TexBc1, range |-> FullRange, usage |-> Usage({"SAMPLED"}, {"COPY_SRC"})]}

BufferCopies ==
    {[src_offset |-> 0, dst_offset |-> 0, size |-> 4],
     [src_offset |-> 4, dst_offset |-> 0, size |-> 8]}

TextureBase == [mip_level |-> 0, origin |-> <<0, 0, 0>>, aspect |-> "All"]

TextureCopies ==
    {[src_base |-> TextureBase, dst_base |-> TextureBase, size |-> <<4, 4, 1>>],
     [src_base |-> TextureBase, dst_base |-> TextureBase, size |-> <<256, 256, 1>>]}

BufferLayout(offset, bytes_per_row, rows_per_image) ==
    [offset |-> offset, bytes_per_row |-> bytes_per_row, rows_per_image |-> rows_per_image]

\* tightly packed rows or a 1024-byte pitch, or a pitch that is no multiple of
\* the block size; no image stride, a small one, or one whose product with a
\* block height of 4 is 2^32
BufferLayouts ==
    {BufferLayout(0, 1024, None),
     BufferLayout(256, 6, 2),
     BufferLayout(512, 2048, 8),
     BufferLayout(0, None, 1073741824)}

BufferTextureCopies ==
    [buffer_layout : BufferLayouts, texture_base : {TextureBase},
     size : {<<256, 256, 1>>}]

\* one region of 1024-byte rows
ShortCopy ==
    [buffer_layout |-> BufferLayout(0, 1024, None), texture_base |-> TextureBase,
     size |-> <<256, 256, 1>>]

\* crate::MemoryRange: start <= end
MemoryRanges == {[start |-> 0, end |-> 16], [start |-> 256, end |-> 256]}

RenderPipeline == [raw |-> "render_pipeline"]

ComputePipeline == [raw |-> "compute_pipeline"]

Batches(S) == UNION {[1..n -> S] : n \in 0..MaxBatch}

\* --------------------------------------------------------- u32 arithmetic
Limb == 2^16

\* the exact product of a u32 and a u8, in base 2^16
WideMul(a, b) ==
    [hi |-> (a \div Limb) * b + ((a % Limb) * b) \div Limb,
     lo |-> ((a % Limb) * b) % Limb]

Wide(n) == [hi |-> n \div Limb, lo |-> n % Limb]

\* 0x01010101
REPLICATE == 16843009

\* a * b does not fit in a u32
MulOverflows(a, b) == WideMul(a, b).hi >= Limb

\* a * b as a u32 when overflow checks are off
WrappingMul(a, b) == (WideMul(a, b).hi % Limb) * Limb + WideMul(a, b).lo

\* -------------------------------------------------------- copy translation
\* hands the pitch on in bytes, without dividing by the block size
BufferRowLengthBytes(bytes_per_row, fi) ==
    IF bytes_per_row = None THEN 0 ELSE bytes_per_row

\* bytes_per_row.map_or(0, |bpr| bpr.get() / fi.block_size as u32)
BufferRowLength(bytes_per_row, fi) ==
    IF bytes_per_row = None THEN 0 ELSE bytes_per_row \div fi.block_size

\* rows_per_image.map_or(0, |rpi| rpi.get() * fi.block_dimensions.1 as u32)
BufferImageHeight(rows_per_image, fi) ==
    IF rows_per_image = None THEN 0
    ELSE WrappingMul(rows_per_image, fi.block_dimensions[2])

\* also panics on an empty batch, as code reading the first region would
MapOverflowsOrEmpty(tex, regions) ==
    \/ regions = <<>>
    \/ \E i \in 1..Len(regions) :
        /\ regions[i].buffer_layout.rows_per_image # None
        /\ MulOverflows(regions[i].buffer_layout.rows_per_image,
                        tex.format_info.block_dimensions[2])

\* rpi.get() * fi.block_dimensions.1 as u32 overflows for some region
MapOverflows(tex, regions) ==
    \E i \in 1..Len(regions) :
        /\ regions[i].buffer_layout.rows_per_image # None
        /\ MulOverflows(regions[i].buffer_layout.rows_per_image,
                        tex.format_info.block_dimensions[2])

map_buffer_copies(tex, regions) ==
    [i \in 1..Len(regions) |->
        LET r == regions[i]
            ext == map_extent(r.size, tex.dim)
            layers == map_subresource_layers(r.texture_base, tex.dim, tex.aspects,
                                             ext.layer_count)
        IN  [buffer_offset |-> r.buffer_layout.offset,
             buffer_row_length |-> BufferRowLength(r.buffer_layout.bytes_per_row,
                                                   tex.format_info),
             buffer_image_height |-> BufferImageHeight(r.buffer_layout.rows_per_image,
                                                       tex.format_info),
             image_subresource |-> layers.subresource,
             image_offset |-> layers.offset,
             image_extent |-> ext.extent]]

\* ------------------------------------------------------- recording calls
RECURSIVE RecordedIn(_)
RecordedIn(S) ==
    IF S = {} THEN 0
    ELSE LET h == CHOOSE x \in S : TRUE
         IN  Len(streams[h]) + RecordedIn(S \ {h})

\* commands the device holds, over all command buffers
TotalRecorded == RecordedIn(DOMAIN streams)

CommandCap == IF script = "single" THEN 1 ELSE MaxCommands

\* the caller is inside a bracket and has recording calls left to make
CanRecord == phase = "recording" /\ TotalRecorded < CommandCap

\* the inputs the caller draws a call's arguments from
Pick(any, short) == IF script = "single" THEN any ELSE short

\* the device holds each native cmd_* call in the command buffer it names
AppendCommands(s, calls) ==
    [h \in DOMAIN s \cup {calls[i].arg : i \in 1..Len(calls)} |->
        StreamOf(s, h) \o SelectSeq(calls, LAMBDA c : c.arg = h)]

\* a recording call that returned: it wrote nothing but the command stream
Recorded(name, args, resources, calls) ==
    /\ op' = [name |-> name, result |-> "Unit", ret |-> NULL,
              args |-> args, resources |-> resources]
    /\ native' = calls
    /\ streams' = AppendCommands(streams, calls)
    /\ UNCHANGED <<free, discarded, active, allocated, external, phase,
                   faultsLeft, workload, script>>

\* a recording call that panicked while building its descriptors, before the
\* native call
Panicked(name, args, resources) ==
    /\ op' = [name |-> name, result |-> "Panic", ret |-> NULL,
              args |-> args, resources |-> resources]
    /\ native' = <<>>
    /\ phase' = "panicked"
    /\ UNCHANGED <<free, discarded, active, allocated, external, faultsLeft, workload,
                   streams, script>>

\* the stage mask the closure of a transition accumulates over the batch
RECURSIVE ClosureStages(_, _)
ClosureStages(stages, translated) ==
    IF translated = <<>> THEN stages
    ELSE ClosureStages(stages \cup Head(translated).stage, Tail(translated))

\* src_stages / dst_stages as cmd_pipeline_barrier is handed them. The closure
\* given to barriers.map is a `move` closure and vk::PipelineStageFlags is
\* Copy: `src_stages |= src_stage` updates the copies the closure owns, and
\* the variables declared before it, which the native call reads, keep the
\* value they were initialised with.
PassedStages(initial, inClosure) == initial

BufferSrc(bar) == map_buffer_usage_to_barrier(bar.usage.start)

BufferDst(bar) == map_buffer_usage_to_barrier(bar.usage.end)

TextureSrc(bar) == map_texture_usage_to_barrier(bar.usage.start)

TextureDst(bar) == map_texture_usage_to_barrier(bar.usage.end)

\* exchanges the two access masks
BufferMemoryBarrierSwapped(bar) ==
    [buffer |-> bar.buffer.raw,
     size |-> "WHOLE_SIZE",
     src_access_mask |-> BufferDst(bar).access,
     dst_access_mask |-> BufferSrc(bar).access]

BufferMemoryBarrier(bar) ==
    [buffer |-> bar.buffer.raw,
     size |-> "WHOLE_SIZE",
     src_access_mask |-> BufferSrc(bar).access,
     dst_access_mask |-> BufferDst(bar).access]

ImageMemoryBarrier(bar) ==
    [image |-> bar.texture.raw,
     subresource_range |-> map_subresource_range(bar.range, bar.texture.aspects),
     src_access_mask |-> TextureSrc(bar).access,
     dst_access_mask |-> TextureDst(bar).access,
     old_layout |-> derive_image_layout(bar.usage.start),
     new_layout |-> derive_image_layout(bar.usage.end)]

PipelineBarrier(cmd, src_stages, dst_stages, buffer_barriers, image_barriers) ==
    [call |-> "cmd_pipeline_barrier", arg |-> cmd, ok |-> TRUE,
     src_stage_mask |-> src_stages, dst_stage_mask |-> dst_stages,
     memory_barriers |-> <<>>,
     buffer_memory_barriers |-> buffer_barriers,
     image_memory_barriers |-> image_barriers]

transition_buffers ==
    /\ CanRecord
    /\ \E barriers \in Pick(Batches(BufferBarriers),
                          {<<>>, <<[buffer |-> BufB,
                                    usage |-> Usage({"COPY_SRC"}, {"COPY_DST"})]>>}) :
        LET src_stages == {}
            dst_stages == {}
            vk_barriers == [i \in 1..Len(barriers) |-> BufferMemoryBarrier(barriers[i])]
        IN  Recorded("transition_buffers", barriers, <<>>,
                <<PipelineBarrier(active,
                    PassedStages(src_stages, ClosureStages(src_stages,
                        [i \in 1..Len(barriers) |-> BufferSrc(barriers[i])])),
                    PassedStages(dst_stages, ClosureStages(dst_stages,
                        [i \in 1..Len(barriers) |-> BufferDst(barriers[i])])),
                    vk_barriers, <<>>)>>)

transition_textures ==
    /\ CanRecord
    /\ \E barriers \in Pick(Batches(TextureBarriers),
                          {<<[texture |-> TexRgba8, range |-> FullRange,
                              usage |-> Usage({}, {"COPY_DST"})]>>}) :
        LET src_stages == {}
            dst_stages == {}
            vk_barriers == [i \in 1..Len(barriers) |-> ImageMemoryBarrier(barriers[i])]
        IN  Recorded("transition_textures", barriers, <<>>,
                <<PipelineBarrier(active,
                    PassedStages(src_stages, ClosureStages(src_stages,
                        [i \in 1..Len(barriers) |-> TextureSrc(barriers[i])])),
                    PassedStages(dst_stages, ClosureStages(dst_stages,
                        [i \in 1..Len(barriers) |-> TextureDst(barriers[i])])),
                    <<>>, vk_barriers)>>)

\* offsets that run on from the commands recorded before
BufferCopyRegionRunning(r) ==
    [src_offset |-> r.src_offset + r.size * TotalRecorded,
     dst_offset |-> r.dst_offset + r.size * TotalRecorded, size |-> r.size]

\* vk::BufferCopy of one region
BufferCopyRegion(r) ==
    [src_offset |-> r.src_offset, dst_offset |-> r.dst_offset, size |-> r.size]

copy_buffer_to_buffer ==
    /\ CanRecord
    /\ \E src \in {BufA}, dst \in {BufB},
          regions \in Pick(Batches(BufferCopies),
                           {<<[src_offset |-> 0, dst_offset |-> 0, size |-> 4]>>}) :
        Recorded("copy_buffer_to_buffer", regions, <<src, dst>>,
            <<[call |-> "cmd_copy_buffer", arg |-> active, ok |-> TRUE,
               src |-> src.raw, dst |-> dst.raw,
               regions |-> [i \in 1..Len(regions) |-> BufferCopyRegion(regions[i])]]>>)

\* vk::ImageCopy of one region
ImageCopyRegion(r, src, dst) ==
    LET ext == map_extent(r.size, src.dim)
        s == map_subresource_layers(r.src_base, src.dim, src.aspects, ext.layer_count)
        d == map_subresource_layers(r.dst_base, dst.dim, dst.aspects, ext.layer_count)
    IN  [src_subresource |-> s.subresource, src_offset |-> s.offset,
         dst_subresource |-> d.subresource, dst_offset |-> d.offset,
         extent |-> ext.extent]

copy_texture_to_texture ==
    /\ CanRecord
    /\ \E src \in {TexRgba8}, src_usage \in {{"COPY_SRC"}}, dst \in {TexRgba8},
          regions \in Pick(Batches(TextureCopies),
                           {<<[src_base |-> TextureBase, dst_base |-> TextureBase,
                               size |-> <<4, 4, 1>>]>>}) :
        Recorded("copy_texture_to_texture", regions, <<src, dst>>,
            <<[call |-> "cmd_copy_image", arg |-> active, ok |-> TRUE,
               src |-> src.raw, src_layout |-> derive_image_layout(src_usage),
               dst |-> dst.raw, dst_layout |-> DST_IMAGE_LAYOUT,
               regions |-> [i \in 1..Len(regions) |->
                               ImageCopyRegion(regions[i], src, dst)]]>>)

copy_buffer_to_texture ==
    /\ CanRecord
    /\ \E src \in {BufA}, dst \in Pick(Textures, {TexRgba8}),
          regions \in Pick(Batches(BufferTextureCopies), {<<ShortCopy>>}),
          overflow_checks \in BOOLEAN :
        IF overflow_checks /\ MapOverflows(dst, regions)
        THEN Panicked("copy_buffer_to_texture", regions, <<src, dst>>)
        ELSE Recorded("copy_buffer_to_texture", regions, <<src, dst>>,
                <<[call |-> "cmd_copy_buffer_to_image", arg |-> active, ok |-> TRUE,
                   src |-> src.raw, dst |-> dst.raw, dst_layout |-> DST_IMAGE_LAYOUT,
                   regions |-> map_buffer_copies(dst, regions)]>>)

copy_texture_to_buffer ==
    /\ CanRecord
    /\ \E src \in Pick(Textures, {TexBc1}), src_usage \in {{"COPY_SRC"}}, dst \in {BufB},
          regions \in Pick(Batches(BufferTextureCopies), {<<ShortCopy>>}),
          overflow_checks \in BOOLEAN :
        IF overflow_checks /\ MapOverflows(src, regions)
        THEN Panicked("copy_texture_to_buffer", regions, <<src, dst>>)
        ELSE Recorded("copy_texture_to_buffer", regions, <<src, dst>>,
                <<[call |-> "cmd_copy_image_to_buffer", arg |-> active, ok |-> TRUE,
                   src |-> src.raw, src_layout |-> derive_image_layout(src_usage),
                   dst |-> dst.raw,
                   regions |-> map_buffer_copies(src, regions)]>>)

\* fills with the byte in the low eight bits only
FillDataLowByte(value) == [hi |-> 0, lo |-> value]

\* (value as u32) * 0x01010101, in base 2^16
FillData(value) ==
    [hi |-> WideMul(REPLICATE, value).hi % Limb, lo |-> WideMul(REPLICATE, value).lo]

fill_buffer ==
    /\ CanRecord
    /\ \E buffer \in {BufA}, range \in Pick(MemoryRanges, {[start |-> 0, end |-> 16]}),
          value \in Pick(0..255, {255}), overflow_checks \in BOOLEAN :
        LET args == [range |-> range, value |-> value]
        IN  IF overflow_checks /\ MulOverflows(REPLICATE, value)
            THEN Panicked("fill_buffer", args, <<buffer>>)
            ELSE Recorded("fill_buffer", args, <<buffer>>,
                    <<[call |-> "cmd_fill_buffer", arg |-> active, ok |-> TRUE,
                       buffer |-> buffer.raw, offset |-> range.start,
                       size |-> range.end - range.start,
                       data |-> FillData(value)]>>)

BindPipeline(cmd, bind_point, pipeline) ==
    [call |-> "cmd_bind_pipeline", arg |-> cmd, ok |-> TRUE,
     pipeline_bind_point |-> bind_point, pipeline |-> pipeline]

set_render_pipeline ==
    /\ CanRecord
    /\ \E pipeline \in {RenderPipeline} :
        Recorded("set_render_pipeline", <<>>, <<pipeline>>,
            <<BindPipeline(active, "GRAPHICS", pipeline.raw)>>)

set_compute_pipeline ==
    /\ CanRecord
    /\ \E pipeline \in {ComputePipeline} :
        Recorded("set_compute_pipeline", <<>>, <<pipeline>>,
            <<BindPipeline(active, "COMPUTE", pipeline.raw)>>)

Next ==
    \/ begin_encoding
    \/ end_encoding
    \/ discard_encoding
    \/ reset_all

Spec == Init /\ [][Next]_vars

\* Recording: a device that never fails, a caller that records, submits and
\* abandons but does not reset.
InitRec ==
    /\ free = <<>>
    /\ discarded = <<>>
    /\ active = NULL
    /\ allocated = 0
    /\ external = {}
    /\ phase = "idle"
    /\ faultsLeft = 0
    /\ workload = "recycle"
    /\ op = Returned("new", "Unit", NULL)
    /\ native = <<>>
    /\ streams = NoCommands
    /\ script = "single"

NextRec ==
    \/ begin_encoding
    \/ end_encoding
    \/ discard_encoding
    \/ transition_buffers
    \/ transition_textures
    \/ copy_buffer_to_buffer
    \/ copy_texture_to_texture
    \/ copy_buffer_to_texture
    \/ copy_texture_to_buffer
    \/ fill_buffer
    \/ set_render_pipeline
    \/ set_compute_pipeline

SpecRec == InitRec /\ [][NextRec]_vars

\* Sequences: the same device and caller, recording several calls per run.
InitStream ==
    /\ free = <<>>
    /\ discarded = <<>>
    /\ active = NULL
    /\ allocated = 0
    /\ external = {}
    /\ phase = "idle"
    /\ faultsLeft = 0
    /\ workload = "recycle"
    /\ op = Returned("new", "Unit", NULL)
    /\ native = <<>>
    /\ streams = NoCommands
    /\ script = "sequence"

SpecStream == InitStream /\ [][NextRec]_vars

\* =================================================================== claims
Handles == 1..allocated

Holders(h) ==
    Count(free, h) + Count(discarded, h)
        + (IF active = h THEN 1 ELSE 0) + (IF h \in external THEN 1 ELSE 0)

FailedCalls == {i \in 1..Len(native) : ~native[i].ok}

CallsNamed(calls, name) == {i \in 1..Len(calls) : calls[i].call = name}

\* C1: every command buffer ever allocated is in exactly one of free,
\* discarded, active or the caller's hands: none is lost, none is duplicated.
C1_PoolAccounting == \A h \in Handles : Holders(h) = 1

\* C2: active is non-null only inside a begin/end bracket: it is null after
\* every end_encoding and discard_encoding, becomes non-null only through a
\* begin_encoding that returns Ok, and is left alone by a failing
\* begin_encoding and by reset_all.
C2_ActiveOnlyInBracket ==
    /\ [](active # NULL => phase = "recording")
    /\ [][ /\ op'.name \in {"end_encoding", "discard_encoding"} => active' = NULL
           /\ (active' # NULL /\ active' # active) =>
                  (op'.name = "begin_encoding" /\ op'.result = "Ok")
           /\ (op'.name = "begin_encoding" /\ op'.result = "Err") => active' = active
           /\ op'.name = "reset_all" => active' = active ]_vars

C2_Witness == op.name = "end_encoding" /\ op.result = "Err" /\ active = NULL

C5_AllocateIffEmpty ==
    /\ [](allocated % 16 = 0)
    /\ [][ op'.name = "begin_encoding" =>
            LET allocs == CallsNamed(native', "allocate_command_buffers") IN
            /\ Cardinality(allocs) = (IF free = <<>> THEN 1 ELSE 0)
            /\ \A i \in allocs : native'[i].arg = 16
            /\ (free = <<>> /\ op'.result = "Ok") =>
                  /\ allocated' = allocated + 16
                  /\ Len(free') = 15
                  /\ Range(free') \cup {active'} = (allocated + 1)..(allocated + 16)
            /\ (free # <<>> /\ op'.result = "Ok") =>
                  /\ allocated' = allocated
                  /\ free = Append(free', active') ]_vars

C5_Witness ==
    /\ op.name = "begin_encoding" /\ op.result = "Ok"
    /\ allocated = 32 /\ Len(free) = 15 /\ active \in 17..32

\* C6: reset_all puts every returned buffer and every discarded buffer into
\* free, empties discarded, keeps what was in free, leaves active alone and
\* issues exactly one native pool reset, whatever it is given.
C6_ResetAll ==
    [][ op'.name = "reset_all" =>
            /\ \A h \in Range(op'.args) \cup Range(discarded) \cup Range(free) :
                  Count(free', h) =
                      Count(free, h) + Count(op'.args, h) + Count(discarded, h)
            /\ Len(free') = Len(free) + Len(op'.args) + Len(discarded)
            /\ SubSeq(free', 1, Len(free)) = free
            /\ discarded' = <<>>
            /\ active' = active
            /\ Len(native') = 1
            /\ native'[1].call = "reset_command_pool" ]_vars

C6_Witness ==
    /\ op.name = "reset_all" /\ Len(op.args) = 1
    /\ Len(free) >= 2 /\ free[Len(free)] # NULL /\ free[Len(free)] # op.args[1]
    /\ free[Len(free) - 1] = op.args[1]
    /\ active # NULL

\* C7: discard_encoding moves the active buffer to discarded and clears
\* active; a discarded buffer is not free, is not made active, and leaves
\* discarded only through reset_all.
C7_DiscardedUntilReset ==
    /\ [](\A h \in Range(discarded) \ {NULL} : h # active /\ Count(free, h) = 0)
    /\ [][ /\ op'.name = "discard_encoding" =>
                 /\ discarded' = Append(discarded, active)
                 /\ active' = NULL
                 /\ free' = free
           /\ \A h \in Range(discarded) \ {NULL} :
                 \/ op'.name = "reset_all"
                 \/ (Count(discarded', h) >= 1 /\ active' # h) ]_vars

C7_Witness ==
    /\ op.name = "begin_encoding" /\ op.result = "Ok"
    /\ Len(discarded) = 1 /\ discarded[1] # NULL
    /\ active # NULL

\* C8: a successful end_encoding returns the buffer that was active, after one
\* native end-recording call on it, and clears active; a buffer the caller
\* holds is not free, discarded or active, and leaves the caller's hands only
\* by being passed to reset_all.
C8_EndReturnsActive ==
    /\ [](\A h \in external \ {NULL} :
              h # active /\ Count(free, h) = 0 /\ Count(discarded, h) = 0)
    /\ [][ /\ (op'.name = "end_encoding" /\ op'.result = "Ok") =>
                 /\ op'.ret = active
                 /\ native' = <<Call("end_command_buffer", active, TRUE)>>
                 /\ active' = NULL
                 /\ active \in external'
           /\ \A h \in external \ {NULL} :
                 \/ (op'.name = "reset_all" /\ Count(op'.args, h) = 1)
                 \/ (h \in external' /\ active' # h) ]_vars

C8_Witness ==
    /\ op.name = "begin_encoding" /\ op.result = "Ok"
    /\ active # NULL
    /\ external \ {NULL} # {}

\* ------------------------------------------------- claims on recording calls
Transitions == {"transition_buffers", "transition_textures"}

BufferTextureOps == {"copy_buffer_to_texture", "copy_texture_to_buffer"}

BatchOps ==
    Transitions \cup BufferTextureOps
        \cup {"copy_buffer_to_buffer", "copy_texture_to_texture"}

\* the stage masks translated from one side of every barrier of the last call
TranslatedStages(side) ==
    UNION {IF op.name = "transition_buffers"
           THEN map_buffer_usage_to_barrier(op.args[i].usage[side]).stage
           ELSE map_texture_usage_to_barrier(op.args[i].usage[side]).stage :
           i \in 1..Len(op.args)}

\* C3: the source and destination stage masks handed to the pipeline-barrier
\* call are the OR, over the batch, of the stage masks translated from each
\* barrier's usage.start and usage.end.
C3_StagesAreBatchOr ==
    op.name \in Transitions =>
        /\ native[1].src_stage_mask = TranslatedStages("start")
        /\ native[1].dst_stage_mask = TranslatedStages("end")

\* the barrier or region descriptors a native call carries
Descriptors(c) ==
    IF c.call = "cmd_pipeline_barrier"
    THEN (c.memory_barriers \o c.buffer_memory_barriers) \o c.image_memory_barriers
    ELSE c.regions

CopyTexture ==
    IF op.name = "copy_buffer_to_texture" THEN op.resources[2] ELSE op.resources[1]

PitchOf(i) == op.args[i].buffer_layout

RowLengthRoundTrips(i) ==
    LET bs == CopyTexture.format_info.block_size
        row == native[1].regions[i].buffer_row_length
    IN  /\ (PitchOf(i).bytes_per_row # None /\ PitchOf(i).bytes_per_row % bs = 0) =>
              /\ row = PitchOf(i).bytes_per_row \div bs
              /\ row * bs = PitchOf(i).bytes_per_row
        /\ PitchOf(i).bytes_per_row = None => row = 0

CopiesIntoTexture == {"copy_buffer_to_texture", "copy_texture_to_texture"}

\* C11: the layout the copies into a texture declare for their destination,
\* DST_IMAGE_LAYOUT = TRANSFER_DST_OPTIMAL, is the layout derived for the
\* COPY_DST usage: it is the new_layout of every texture barrier that ends in
\* COPY_DST.
C11_DstLayoutIsCopyDst ==
    /\ derive_image_layout({"COPY_DST"}) = DST_IMAGE_LAYOUT
    /\ (op.name \in CopiesIntoTexture /\ op.result = "Unit") =>
          /\ native[1].dst_layout = "TRANSFER_DST_OPTIMAL"
          /\ native[1].dst_layout = derive_image_layout({"COPY_DST"})
    /\ op.name = "transition_textures" =>
          \A i \in 1..Len(op.args) :
              op.args[i].usage.end = {"COPY_DST"} =>
                  native[1].image_memory_barriers[i].new_layout = DST_IMAGE_LAYOUT

C11_Witness ==
    /\ op.name = "transition_textures"
    /\ Len(op.args) >= 1
    /\ op.args[1].usage.end = {"COPY_DST"}
    /\ native[1].image_memory_barriers[1].new_layout = "TRANSFER_DST_OPTIMAL"

\* C12: fill_buffer passes the fill byte replicated in all four bytes of the
\* 32-bit pattern, for every byte 0..255; the multiplication by 0x01010101
\* never leaves 32 bits (the call never panics and nothing is wrapped away);
\* the fill starts at range.start and covers range.end - range.start bytes.
C12_FillPattern ==
    /\ \A v \in 0..255 : ~MulOverflows(REPLICATE, v)
    /\ op.name = "fill_buffer" =>
          /\ op.result = "Unit"
          /\ Len(native) = 1
          /\ native[1].call = "cmd_fill_buffer"
          /\ native[1].data.hi \div 256 = op.args.value
          /\ native[1].data.hi % 256 = op.args.value
          /\ native[1].data.lo \div 256 = op.args.value
          /\ native[1].data.lo % 256 = op.args.value
          /\ native[1].data = WideMul(REPLICATE, op.args.value)
          /\ native[1].offset = op.args.range.start
          /\ native[1].offset + native[1].size = op.args.range.end

C12_Witness ==
    /\ op.name = "fill_buffer"
    /\ op.args.value = 255
    /\ op.args.range = [start |-> 0, end |-> 16]
    /\ native[1].data = [hi |-> 65535, lo |-> 65535]
    /\ native[1].size = 16

\* the native descriptor at position i answers the input at position i
DescriptorOfInput(i) ==
    LET arg == op.args[i]
        c == native[1]
    IN  CASE op.name = "transition_buffers" ->
                /\ c.buffer_memory_barriers[i].buffer = arg.buffer.raw
                /\ c.buffer_memory_barriers[i].src_access_mask
                       = map_buffer_usage_to_barrier(arg.usage.start).access
                /\ c.buffer_memory_barriers[i].dst_access_mask
                       = map_buffer_usage_to_barrier(arg.usage.end).access
          [] op.name = "transition_textures" ->
                /\ c.image_memory_barriers[i].image = arg.texture.raw
                /\ c.image_memory_barriers[i].src_access_mask
                       = map_texture_usage_to_barrier(arg.usage.start).access
                /\ c.image_memory_barriers[i].dst_access_mask
                       = map_texture_usage_to_barrier(arg.usage.end).access
                /\ c.image_memory_barriers[i].old_layout
                       = derive_image_layout(arg.usage.start)
                /\ c.image_memory_barriers[i].new_layout
                       = derive_image_layout(arg.usage.end)
          [] op.name = "copy_buffer_to_buffer" ->
                /\ c.regions[i].src_offset = arg.src_offset
                /\ c.regions[i].dst_offset = arg.dst_offset
                /\ c.regions[i].size = arg.size
          [] op.name = "copy_texture_to_texture" ->
                /\ c.regions[i].extent = map_extent(arg.size, op.resources[1].dim).extent
                /\ c.regions[i].src_offset[1] = arg.src_base.origin[1]
                /\ c.regions[i].dst_offset[1] = arg.dst_base.origin[1]
          [] op.name \in BufferTextureOps ->
                /\ c.regions[i].buffer_offset = arg.buffer_layout.offset
                /\ c.regions[i].image_extent = map_extent(arg.size, CopyTexture.dim).extent

\* C13: a transition or copy that returns issues exactly one native call, with
\* exactly one native descriptor per input barrier or region, in input order;
\* each barrier descriptor is translated from its own usage.start and
\* usage.end; transition_buffers passes no image barriers, transition_textures
\* no buffer barriers, and neither passes a global memory barrier.
C13_OneDescriptorPerInput ==
    (op.name \in BatchOps /\ op.result = "Unit") =>
        /\ Len(native) = 1
        /\ Len(Descriptors(native[1])) = Len(op.args)
        /\ \A i \in 1..Len(op.args) : DescriptorOfInput(i)
        /\ op.name = "transition_buffers" =>
              /\ native[1].image_memory_barriers = <<>>
              /\ native[1].memory_barriers = <<>>
        /\ op.name = "transition_textures" =>
              /\ native[1].buffer_memory_barriers = <<>>
              /\ native[1].memory_barriers = <<>>

C13_Witness ==
    /\ op.name = "transition_buffers"
    /\ Len(op.args) = 2
    /\ op.args[1].buffer = BufA
    /\ op.args[2].buffer = BufB
    /\ op.args[1].usage # op.args[2].usage
    /\ Len(native[1].buffer_memory_barriers) = 2
    /\ native[1].buffer_memory_barriers[1].buffer = "buf_a"
    /\ native[1].buffer_memory_barriers[2].dst_access_mask = {"TRANSFER_WRITE"}

RecordingOps ==
    BatchOps \cup {"fill_buffer", "set_render_pipeline", "set_compute_pipeline"}

\* every command a buffer holds was recorded on that buffer, and the null
\* handle and the free buffers hold none
StreamsOfOwnBuffer ==
    /\ \A h \in DOMAIN streams : \A i \in 1..Len(streams[h]) : streams[h][i].arg = h
    /\ StreamOf(streams, NULL) = <<>>
    /\ \A i \in 1..Len(free) : StreamOf(streams, free[i]) = <<>>

\* a successful begin_encoding makes a buffer without commands the active one;
\* a recording call appends its one native command to the active buffer's
\* stream and to no other; nothing else writes a stream; end_encoding returns
\* the buffer the calls were recorded into
RecordsIntoActive ==
    /\ (op'.name = "begin_encoding" /\ op'.result = "Ok") =>
          /\ active' = native'[Len(native')].arg
          /\ StreamOf(streams', active') = <<>>
    /\ (op'.name \in RecordingOps /\ op'.result = "Unit") =>
          /\ phase = "recording"
          /\ active # NULL
          /\ active' = active
          /\ Len(native') = 1
          /\ StreamOf(streams', active) = Append(StreamOf(streams, active), native'[1])
          /\ \A h \in 0..MaxAllocated :
                 h # active => StreamOf(streams', h) = StreamOf(streams, h)
    /\ op'.name \notin RecordingOps => streams' = streams
    /\ (op'.name = "end_encoding" /\ op'.result = "Ok") =>
          /\ op'.ret = active
          /\ StreamOf(streams', op'.ret) = StreamOf(streams, active)

\* C14: every recording call issued between a successful begin_encoding and
\* the matching end_encoding or discard_encoding is appended, in call order,
\* to the command stream of the buffer that begin_encoding made active and to
\* no other buffer; the buffer end_encoding returns holds exactly those
\* commands in that order.
C14_RecordedIntoActiveBuffer == []StreamsOfOwnBuffer /\ [][RecordsIntoActive]_vars

C14_Witness ==
    /\ op.name = "end_encoding"
    /\ op.result = "Ok"
    /\ Len(StreamOf(streams, op.ret)) = 2
    /\ streams[op.ret][1].call = "cmd_pipeline_barrier"
    /\ streams[op.ret][2].call = "cmd_fill_buffer"
    /\ DOMAIN streams = {op.ret}

\* ------------------------------------------------ claims on error handling
\* C15: after end_encoding failed and the caller discarded, the buffer that was
\* being recorded is in the discarded list; the null handle is never placed in
\* discarded or free.
C15_FailedEndDiscardsBuffer ==
    /\ NULL \notin Range(discarded)
    /\ NULL \notin Range(free)
    /\ op.name = "discard_encoding" =>
          /\ discarded # <<>>
          /\ discarded[Len(discarded)] \in Handles

\* C16: a begin_encoding that returns an error leaves active and discarded
\* unchanged and loses no command buffer: every handle that was in free before
\* the call and every handle allocated during it is in free after it.
C16_FailedBeginLosesNothing ==
    [][ (op'.name = "begin_encoding" /\ op'.result = "Err") =>
            /\ active' = active
            /\ discarded' = discarded
            /\ Range(free) \subseteq Range(free')
            /\ (allocated + 1)..allocated' \subseteq Range(free') ]_vars

\* ------------------------------------------------ claims on copy geometry
\* C17: for a region with explicit bytes_per_row and rows_per_image, of any
\* texel-block format, both buffer_row_length and buffer_image_height are in
\* texels: (bytes_per_row / block_size) * block width, and
\* rows_per_image * block height.
C17_PitchInTexels ==
    (op.name \in BufferTextureOps /\ op.result = "Unit") =>
        \A i \in 1..Len(op.args) :
            LET fi == CopyTexture.format_info
            IN  (PitchOf(i).bytes_per_row # None /\ PitchOf(i).rows_per_image # None) =>
                    /\ native[1].regions[i].buffer_row_length
                           = (PitchOf(i).bytes_per_row \div fi.block_size)
                                 * fi.block_dimensions[1]
                    /\ Wide(native[1].regions[i].buffer_image_height)
                           = WideMul(PitchOf(i).rows_per_image, fi.block_dimensions[2])

\* ------------------------------------------------ claims on frame effects
PoolFreeOps == BatchOps \cup {"fill_buffer"}

\* what a native call carries besides the command buffer it records into
Payload(c) == [c EXCEPT !.arg = NULL]

\* C18: transition_buffers, transition_textures, fill_buffer and the four
\* copies leave free, discarded and active unchanged, whatever their input
\* (empty batches included) and whether they return or panic; and a call
\* repeated with the same arguments hands the native layer the same
\* descriptors as before, whatever was recorded in between.
C18_RecordingLeavesPool ==
    [][ op'.name \in PoolFreeOps =>
            /\ free' = free
            /\ discarded' = discarded
            /\ active' = active
            /\ ( /\ op.name = op'.name
                 /\ op.args = op'.args
                 /\ op.resources = op'.resources
                 /\ op.result = "Unit"
                 /\ op'.result = "Unit" ) =>
                    /\ Len(native') = Len(native)
                    /\ \A i \in 1..Len(native) : Payload(native'[i]) = Payload(native[i]) ]_vars

C18_Witness ==
    /\ op.name = "copy_buffer_to_buffer"
    /\ phase = "recording"
    /\ Len(StreamOf(streams, active)) = 2
    /\ streams[active][1] = streams[active][2]
    /\ streams[active][2] = native[1]
    /\ Len(native[1].regions) = 1
    /\ free # <<>>
====
